---- MODULE Spec2Model ----
(***************************************************************************)
(* Model of the zutils helpers: MCMCUtils (mcmc.py), dec2delta/ra2alpha     *)
(* (radec.py) and TimeConverter.convert_time (time_utils.py).               *)
(*                                                                          *)
(* Floating point values that can be non-finite are records [k, v]:         *)
(* k = "fin" with the value v, or k = "pinf" / "ninf" / "nan" with v = 0.   *)
(* Parameter values, chain entries and coordinates are finite and are       *)
(* integers.                                                                *)
(***************************************************************************)
EXTENDS Integers, Sequences, FiniteSets, TLC

\* ------------------------------------------------------------------ bounds
MaxParams == 2
MaxWalkers == 2
MaxIter == 3
MaxField == 2

\* ------------------------------------------------- extended floating point
Fin(n) == [k |-> "fin", v |-> n]
PInf == [k |-> "pinf", v |-> 0]
NInf == [k |-> "ninf", v |-> 0]
NaN == [k |-> "nan", v |-> 0]

\* np.isinf: true of +inf and -inf only; false of NaN.
isinf(x) == x.k \in {"pinf", "ninf"}

\* np.isfinite, used only to state properties.
isfinite(x) == x.k = "fin"

\* IEEE-754 addition.
FAdd(x, y) ==
    IF x.k = "nan" \/ y.k = "nan" THEN NaN
    ELSE IF x.k = "fin" /\ y.k = "fin" THEN Fin(x.v + y.v)
    ELSE IF x.k = "fin" THEN y
    ELSE IF y.k = "fin" THEN x
    ELSE IF x.k = y.k THEN x
    ELSE NaN

\* IEEE-754 product of a finite non-zero integer c with x.
FScale(c, x) ==
    IF x.k = "nan" THEN NaN
    ELSE IF x.k = "fin" THEN Fin(c * x.v)
    ELSE IF (c < 0) = (x.k = "pinf") THEN NInf
    ELSE PInf

\* IEEE-754 x < y (false when either is NaN).
FLess(x, y) ==
    IF x.k = "nan" \/ y.k = "nan" THEN FALSE
    ELSE IF x.k = "ninf" THEN y.k # "ninf"
    ELSE IF x.k = "pinf" THEN FALSE
    ELSE IF y.k = "pinf" THEN TRUE
    ELSE IF y.k = "ninf" THEN FALSE
    ELSE x.v < y.v

\* ------------------------------------------------------------ input sets
ParamVals == -1 .. 2
ParamNames == {"t0", "u0", "tE"}
NoBounds == [n \in {} |-> <<0, 0>>]
BoundDicts ==
    { NoBounds,
      [n \in {"t0"} |-> <<0, 1>>],
      [n \in {"t0", "u0"} |-> IF n = "t0" THEN <<-1, 1>> ELSE <<0, 2>>],
      [n \in {"u0"} |-> <<1, 0>>] }
EventModels == {"gauss", "flat", "pinf", "ninf", "nan"}

Vectors(S, n) == [1 .. n -> S]

VARIABLES
    event, params_to_fit, params_lowup_dict,
    ev_pc, params_free, ev_ret,
    coord, rd_pc, rd_ret,
    tc, tc_pc, tc_ret,
    self_prior, chain_path, nwalkers, nburn, nstep, nthread,
    fit_pc, init_params, pos, pool, chain, lnprobability,
    params_chain, chi2_chain, file, result

evalVars == <<ev_pc, params_free, ev_ret>>
sharedVars == <<event, params_to_fit, params_lowup_dict>>
radecVars == <<coord, rd_pc, rd_ret>>
timeVars == <<tc, tc_pc, tc_ret>>
fitArgs == <<self_prior, chain_path, nwalkers, nburn, nstep, nthread>>
fitVars == <<fitArgs, fit_pc, init_params, pos, pool, chain, lnprobability,
             params_chain, chi2_chain, file, result>>
vars == <<sharedVars, evalVars, radecVars, timeVars, fitVars>>

\* ------------------------------------------------------------------ Event
RECURSIVE SumSq(_, _)
SumSq(v, i) == IF i > Len(v) THEN 0 ELSE v[i] * v[i] + SumSq(v, i + 1)

\* event.set_params(params_free, params_to_fit)
event_set_params(e, values) == [e EXCEPT !.params = values]

\* event.ln_prob(): the log-likelihood of the event's current parameters.
event_ln_prob(e) ==
    IF e.model = "gauss" THEN Fin(-SumSq(e.params, 1))
    ELSE IF e.model = "flat" THEN Fin(0)
    ELSE IF e.model = "pinf" THEN PInf
    ELSE IF e.model = "ninf" THEN NInf
    ELSE NaN

\* ------------------------------------------------------- MCMCUtils.flat_prior
RECURSIVE flat_prior_from(_, _, _, _)
flat_prior_from(i, values, names, lowup) ==
    IF i > Len(values) THEN Fin(0)
    ELSE IF names[i] \in DOMAIN lowup
            /\ (values[i] < lowup[names[i]][1] \/ values[i] > lowup[names[i]][2])
         THEN PInf
         ELSE flat_prior_from(i + 1, values, names, lowup)

RECURSIVE flat_prior_strict_from(_, _, _, _)
flat_prior_strict_from(i, values, names, lowup) ==
    IF i > Len(values) THEN Fin(0)
    ELSE IF names[i] \in DOMAIN lowup
            /\ (values[i] <= lowup[names[i]][1] \/ values[i] >= lowup[names[i]][2])
         THEN PInf
         ELSE flat_prior_strict_from(i + 1, values, names, lowup)

\* Mutant of flat_prior: open instead of closed intervals.
flat_prior_open(values, names, lowup) == flat_prior_strict_from(1, values, names, lowup)

flat_prior(values, names, lowup) == flat_prior_from(1, values, names, lowup)

\* ---------------------------------------------------------- MCMCUtils.ln_prob
\* The value ln_prob returns, given the event after set_params.
ln_prob(values, e, names, lowup) ==
    LET l_prior == flat_prior(values, names, lowup)
        l_prob == event_ln_prob(event_set_params(e, values))
    IN  IF isinf(l_prior) \/ isinf(l_prob) THEN NInf
        ELSE FAdd(l_prior, l_prob)

\* ------------------------------------------------ specification SpecEval
NoRet == [op |-> "none", val |-> Fin(0)]

\* The variables of a component that a specification does not exercise.
SharedIdle ==
    /\ event = [model |-> "gauss", params |-> <<>>, init |-> <<>>]
    /\ params_to_fit = <<>>
    /\ params_lowup_dict = NoBounds

EvalIdle == ev_pc = "idle" /\ params_free = <<>> /\ ev_ret = NoRet

RadecIdle == rd_pc = "idle" /\ coord = <<>> /\ rd_ret = [op |-> "none", val |-> 0]

TimeIdle ==
    /\ tc_pc = "idle"
    /\ tc = [input_format |-> "", input_timestamps |-> "", output_format |-> "",
             observatory |-> ""]
    /\ tc_ret = [kind |-> "none", detail |-> ""]

NoPool == [state |-> "none", created |-> 0]
NoFile == [header |-> "", rows |-> <<>>, written |-> FALSE]
NoResult == [params_best |-> <<>>, params_errs |-> <<>>, chi2 |-> Fin(0)]

FitIdle ==
    /\ fit_pc = "idle"
    /\ self_prior = "None" /\ chain_path = "None"
    /\ nwalkers = 0 /\ nburn = 0 /\ nstep = 0 /\ nthread = 1
    /\ init_params = <<>> /\ pos = <<>> /\ pool = NoPool
    /\ chain = <<>> /\ lnprobability = <<>>
    /\ params_chain = <<>> /\ chi2_chain = <<>>
    /\ file = NoFile /\ result = NoResult

InitEval ==
    /\ RadecIdle /\ TimeIdle /\ FitIdle
    /\ \E n \in 1 .. MaxParams :
         /\ params_free \in Vectors(ParamVals, n)
         /\ params_to_fit \in Vectors(ParamNames, n)
         /\ \E m \in EventModels :
              event = [model |-> m, params |-> [i \in 1 .. n |-> 0],
                       init |-> [i \in 1 .. n |-> 0]]
    /\ params_lowup_dict \in BoundDicts
    /\ ev_pc = "ready"
    /\ ev_ret = NoRet

FlatPriorCall ==
    /\ ev_pc = "ready"
    /\ ev_ret' = [op |-> "flat_prior",
                  val |-> flat_prior(params_free, params_to_fit, params_lowup_dict)]
    /\ ev_pc' = "done"
    /\ UNCHANGED <<params_free, sharedVars, radecVars, timeVars, fitVars>>

LnProbCall ==
    /\ ev_pc = "ready"
    /\ event' = event_set_params(event, params_free)
    /\ ev_ret' = [op |-> "ln_prob",
                  val |-> ln_prob(params_free, event, params_to_fit, params_lowup_dict)]
    /\ ev_pc' = "done"
    /\ UNCHANGED <<params_free, params_to_fit, params_lowup_dict, radecVars, timeVars, fitVars>>

NextEval == FlatPriorCall \/ LnProbCall

SpecEval == InitEval /\ [][NextEval]_vars

\* (C1) MCMCUtils.ln_prob returns -inf whenever the prior is infinite or the
\* event's likelihood is non-finite (+inf, -inf or NaN), and prior + likelihood
\* in every other case.
C1_NonFiniteRejected ==
    (ev_pc = "done" /\ ev_ret.op = "ln_prob") =>
        LET l_prior == flat_prior(params_free, params_to_fit, params_lowup_dict)
            l_prob == event_ln_prob(event)
        IN  ev_ret.val = IF isinf(l_prior) \/ ~isfinite(l_prob) THEN NInf
                         ELSE FAdd(l_prior, l_prob)

\* Every parameter whose name is in the mapping lies in its closed interval.
InBounds(values, names, lowup) ==
    \A i \in 1 .. Len(values) :
        names[i] \in DOMAIN lowup =>
            (lowup[names[i]][1] <= values[i] /\ values[i] <= lowup[names[i]][2])

\* (C4) MCMCUtils.flat_prior returns 0 if every bounded parameter lies within
\* its closed interval and +inf if a bounded parameter lies outside; parameters
\* absent from the mapping never reject, and the call leaves its inputs as
\* they were.
C4_FlatPriorClosedBox ==
    /\ []((ev_pc = "done" /\ ev_ret.op = "flat_prior") =>
            ev_ret.val = IF InBounds(params_free, params_to_fit, params_lowup_dict)
                         THEN Fin(0) ELSE PInf)
    /\ [][(ev_pc = "ready" /\ ev_ret'.op = "flat_prior") =>
            /\ params_free' = params_free
            /\ params_to_fit' = params_to_fit
            /\ params_lowup_dict' = params_lowup_dict]_vars

\* A value equal to a bound is accepted next to a parameter without bounds.
C4_Witness ==
    /\ ev_pc = "done" /\ ev_ret.op = "flat_prior" /\ ev_ret.val = Fin(0)
    /\ \E i \in 1 .. Len(params_free) :
         /\ params_to_fit[i] \in DOMAIN params_lowup_dict
         /\ params_free[i] = params_lowup_dict[params_to_fit[i]][2]
    /\ \E j \in 1 .. Len(params_free) :
         /\ params_to_fit[j] \notin DOMAIN params_lowup_dict
         /\ params_free[j] = 2

\* --------------------------------------------------------------- radec.py
\* A sexagesimal string after split(sep): three fields, each a sign and digits.
\* Results are in units of 1/3600 (arcseconds, or seconds of time for ra),
\* which keeps deg + min/60 + sec/3600 an integer.
Signs == {"", "+", "-"}

\* astype(float) of one field; "-00" becomes -0.0, which compares equal to 0.
field_float(f) == IF f.sign = "-" THEN -f.digits ELSE f.digits

ra2alpha(ra) ==
    (field_float(ra[1]) * 3600 + field_float(ra[2]) * 60 + field_float(ra[3])) * 15

dec2delta(dec) ==
    IF field_float(dec[1]) < 0
    THEN field_float(dec[1]) * 3600 - field_float(dec[2]) * 60 - field_float(dec[3])
    ELSE field_float(dec[1]) * 3600 + field_float(dec[2]) * 60 + field_float(dec[3])

InitRadec ==
    /\ SharedIdle /\ EvalIdle /\ TimeIdle /\ FitIdle
    /\ \E s \in Signs, d \in 0 .. MaxField, m \in 0 .. MaxField, c \in 0 .. MaxField :
         coord = << [sign |-> s, digits |-> d],
                    [sign |-> "", digits |-> m],
                    [sign |-> "", digits |-> c] >>
    /\ rd_pc = "ready"
    /\ rd_ret = [op |-> "none", val |-> 0]

Dec2DeltaCall ==
    /\ rd_pc = "ready"
    /\ rd_ret' = [op |-> "dec2delta", val |-> dec2delta(coord)]
    /\ rd_pc' = "done"
    /\ UNCHANGED <<coord, sharedVars, evalVars, timeVars, fitVars>>

Ra2AlphaCall ==
    /\ rd_pc = "ready"
    /\ rd_ret' = [op |-> "ra2alpha", val |-> ra2alpha(coord)]
    /\ rd_pc' = "done"
    /\ UNCHANGED <<coord, sharedVars, evalVars, timeVars, fitVars>>

NextRadec == Dec2DeltaCall \/ Ra2AlphaCall

SpecRadec == InitRadec /\ [][NextRadec]_vars

\* The same string without the sign of its degree field.
Unsigned(dec) == [dec EXCEPT ![1].sign = ""]

\* (C9) A declination whose degree field carries a leading minus sign yields
\* the negative of the value of the same string without the sign, also for a
\* degree field of "-00".
C9_MinusNegates ==
    (rd_pc = "done" /\ rd_ret.op = "dec2delta" /\ coord[1].sign = "-") =>
        rd_ret.val = -dec2delta(Unsigned(coord))

\* ------------------------------------------- TimeConverter.convert_time
\* Format names a caller may put into the constructor: the supported ones and
\* two others.
InputFormats == {"jd_utc", "isot_utc", "mjd_utc", "hjd_utc", "bjd_tdb"}
OutputFormats == {"jd_utc", "mjd_utc", "mjd_tdb", "hjd_utc", "bjd_tdb"}
FormatNames == InputFormats \cup OutputFormats \cup {"tai", ""}
TimeStamps == {"start", "mid", "end"}
Observatories == {"Roque de los Muchachos", "nowhere"}

\* EarthLocation.of_site(observatory) knows the site.
site_known(observatory) == observatory = "Roque de los Muchachos"

\* How the call ends: kind is "return" (detail "None" or the format of the
\* converted times) or the name of the exception that leaves the call.
convert_time(self) ==
    IF self.input_format = self.output_format /\ self.input_timestamps = "mid"
    THEN [kind |-> "return", detail |-> "None"]
    ELSE IF ~site_known(self.observatory)
    THEN [kind |-> "UnknownSiteException", detail |-> self.observatory]
    ELSE IF self.input_format \notin
              {"jd_utc", "isot_utc", "mjd_utc", "hjd_utc", "bjd_tdb"}
    THEN [kind |-> "ValueError", detail |-> "Unknown input time format, exiting..."]
    ELSE IF self.output_format \in
              {"jd_utc", "mjd_utc", "mjd_tdb", "hjd_utc", "bjd_tdb"}
    THEN [kind |-> "return", detail |-> self.output_format]
    \* the ValueError of the last else is built but not raised; new_time is unbound
    ELSE [kind |-> "UnboundLocalError", detail |-> "new_time"]

InitTime ==
    /\ SharedIdle /\ EvalIdle /\ RadecIdle /\ FitIdle
    /\ tc \in [input_format : FormatNames, input_timestamps : TimeStamps,
               output_format : FormatNames, observatory : Observatories]
    /\ tc_pc = "ready"
    /\ tc_ret = [kind |-> "none", detail |-> ""]

ConvertTimeCall ==
    /\ tc_pc = "ready"
    /\ tc_ret' = convert_time(tc)
    /\ tc_pc' = "done"
    /\ UNCHANGED <<tc, sharedVars, evalVars, radecVars, fitVars>>

NextTime == ConvertTimeCall

SpecTime == InitTime /\ [][NextTime]_vars

\* (C10) If input_format or output_format is not a supported name, convert_time
\* ends by raising ValueError with an "Unknown ... time format" message; a
\* value is returned only when both formats are supported.  Stated for the
\* calls that get as far as the dispatch: the site is known and the
\* "no conversion needed" shortcut is not taken.
C10_UnknownFormatRaises ==
    (/\ tc_pc = "done"
     /\ site_known(tc.observatory)
     /\ ~(tc.input_format = tc.output_format /\ tc.input_timestamps = "mid")) =>
        /\ (tc.input_format \notin InputFormats \/ tc.output_format \notin OutputFormats)
              => (tc_ret.kind = "ValueError"
                  /\ tc_ret.detail \in {"Unknown input time format, exiting...",
                                        "Unknown output time format, exiting..."})
        /\ tc_ret.kind = "return"
              => (tc.input_format \in InputFormats /\ tc.output_format \in OutputFormats)

\* -------------------------------------------------- MCMCUtils.emcee_fitting
\* Inputs of a fitting run.
FitNames == {<<"t0", "u0">>}
FitEventModels == {"gauss", "flat"}
FitBoundDicts == {[n \in {"t0"} |-> <<0, 1>>]}
Priors == {"None", "user_prior"}
ChainPaths == {"None", "chain.csv"}
ThreadCounts == {0, 1, 2}
Noise == {-1, 1}

\* A prior callable (values, names) -> float a caller may pass to __init__.
user_prior(values, names) == IF values[1] >= 1 THEN PInf ELSE Fin(0)

\* The positions the sampler's walkers may take at a step.
Positions(ndim) == {[i \in 1 .. ndim |-> i - 1], [i \in 1 .. ndim |-> 1]}

\* pos = [init_params + noise for _ in range(nwalkers - 1)]; pos += [init_params]
walker_positions_all_perturbed(init, noise, n) ==
    [i \in 1 .. n |->
        IF n = 1 THEN init
        ELSE [d \in 1 .. Len(init) |-> init[d] + noise[((i - 1) % (n - 1)) + 1][d]]]

walker_positions(init, noise, n) ==
    [i \in 1 .. (n - 1) |-> [d \in 1 .. Len(init) |-> init[d] + noise[i][d]]]
        \o <<init>>

\* sampler.lnprobability: MCMCUtils.ln_prob at every chain position, with the
\* args the sampler was built with (event, params_to_fit, self.params_lowup_dict).
sampler_lnprobability(ch, e, names, lowup) ==
    [w \in 1 .. Len(ch) |-> [t \in 1 .. Len(ch[w]) |-> ln_prob(ch[w][t], e, names, lowup)]]

\* sampler.chain[:, nburn:, :].reshape((-1, ndim), order="F"): the element of
\* the (W, S, P) cube with Fortran index L = r + R*c goes to row r, column c.
reshape_C_order(ch, burn, ndim) ==
    LET W == Len(ch)
        S == Len(ch[1]) - burn
    IN  [r \in 1 .. (W * S) |->
            [c \in 1 .. ndim |->
                LET L == (r - 1) * ndim + (c - 1)
                IN  ch[(L \div (S * ndim)) + 1][burn + ((L \div ndim) % S) + 1][(L % ndim) + 1]]]

reshape_params(ch, burn, ndim) ==
    LET W == Len(ch)
        S == Len(ch[1]) - burn
        R == W * S
    IN  [r \in 1 .. R |->
            [c \in 1 .. ndim |->
                LET L == (r - 1) + R * (c - 1)
                IN  ch[(L % W) + 1][burn + ((L \div W) % S) + 1][(L \div (W * S)) + 1]]]

\* -2 * sampler.lnprobability[:, nburn:].reshape(-1, order="F")
reshape_chi2_C_order(lnp, burn) ==
    LET W == Len(lnp)
        S == Len(lnp[1]) - burn
    IN  [r \in 1 .. (W * S) |->
            FScale(-2, lnp[((r - 1) \div S) + 1][burn + ((r - 1) % S) + 1])]

reshape_chi2(lnp, burn) ==
    LET W == Len(lnp)
        S == Len(lnp[1]) - burn
    IN  [r \in 1 .. (W * S) |->
            FScale(-2, lnp[((r - 1) % W) + 1][burn + ((r - 1) \div W) + 1])]

\* ",".join(params_to_fit) + ",chi2"
RECURSIVE join(_, _)
join(sep, names) ==
    IF Len(names) = 0 THEN ""
    ELSE IF Len(names) = 1 THEN names[1]
    ELSE names[1] \o sep \o join(sep, Tail(names))

header_str(names) == join(",", names) \o ",chi2"

\* np.vstack([params_chain.T, chi2_chain]).T
save_chain(pc, chi2) == [r \in 1 .. Len(pc) |-> Append([c \in 1 .. Len(pc[r]) |-> Fin(pc[r][c])], chi2[r])]

\* np.argmin: the first NaN if there is one, else the first minimum (1-based).
RECURSIVE argmin_from(_, _, _)
argmin_from(a, i, best) ==
    IF i > Len(a) THEN best
    ELSE IF a[best].k = "nan" THEN best
    ELSE IF a[i].k = "nan" \/ FLess(a[i], a[best]) THEN argmin_from(a, i + 1, i)
    ELSE argmin_from(a, i + 1, best)

RECURSIVE argmin_last_from(_, _, _)
argmin_last_from(a, i, best) ==
    IF i > Len(a) THEN best
    ELSE IF FLess(a[best], a[i]) THEN argmin_last_from(a, i + 1, best)
    ELSE argmin_last_from(a, i + 1, i)

\* Mutant of argmin: the last minimum.
argmin_last(a) == argmin_last_from(a, 2, 1)

argmin(a) == argmin_from(a, 2, 1)

\* np.percentile(params_chain, q, axis=0) with linear interpolation, times 100.
percentile(pc, q, c) ==
    LET a == SortSeq([r \in 1 .. Len(pc) |-> pc[r][c]], LAMBDA x, y : x < y)
        h == q * (Len(a) - 1)
        lo == (h \div 100) + 1
    IN  IF h % 100 = 0 THEN 100 * a[lo]
        ELSE 100 * a[lo] + (h % 100) * (a[lo + 1] - a[lo])

params_errs(pc, ndim) ==
    << [c \in 1 .. ndim |-> percentile(pc, 16, c)],
       [c \in 1 .. ndim |-> percentile(pc, 84, c)] >>

InitFit ==
    /\ EvalIdle /\ RadecIdle /\ TimeIdle
    /\ params_to_fit \in FitNames
    /\ \E m \in FitEventModels :
         event = [model |-> m,
                  params |-> [i \in 1 .. Len(params_to_fit) |-> 0],
                  init |-> [i \in 1 .. Len(params_to_fit) |-> 0]]
    /\ params_lowup_dict \in FitBoundDicts
    /\ self_prior \in Priors
    /\ chain_path \in ChainPaths
    /\ nwalkers \in 1 .. MaxWalkers
    /\ nburn \in 0 .. (MaxIter - 1)
    /\ nstep \in 1 .. (MaxIter - nburn)
    /\ nthread \in ThreadCounts
    /\ fit_pc = "start"
    /\ init_params = <<>> /\ pos = <<>> /\ pool = NoPool
    /\ chain = <<>> /\ lnprobability = <<>>
    /\ params_chain = <<>> /\ chi2_chain = <<>>
    /\ file = NoFile /\ result = NoResult

fitOut == <<chain, lnprobability, params_chain, chi2_chain, file, result>>

\* init_params = event.get_init_params(params_to_fit); the event may raise.
GetInitParams ==
    /\ fit_pc = "start"
    /\ \/ fit_pc' = "init" /\ init_params' = event.init
       \/ fit_pc' = "failed" /\ init_params' = init_params
    /\ UNCHANGED <<sharedVars, fitArgs, pos, pool, fitOut, evalVars, radecVars, timeVars>>

\* lines 75-76: the starting positions
MakePos ==
    /\ fit_pc = "init"
    /\ \E noise \in [1 .. (nwalkers - 1) -> [1 .. Len(params_to_fit) -> Noise]] :
         pos' = walker_positions(init_params, noise, nwalkers)
    /\ fit_pc' = "pos"
    /\ UNCHANGED <<sharedVars, fitArgs, init_params, pool, fitOut, evalVars, radecVars, timeVars>>

\* One iteration of sampler.run_mcmc(pos, nburn + nstep): every walker takes a
\* position, and its log-posterior is recorded with it.  The first iteration
\* consumes pos.
run_mcmc_step ==
    LET W == nwalkers
        old == IF chain = <<>> THEN [w \in 1 .. W |-> <<>>] ELSE chain
    IN  /\ Len(old[1]) < nburn + nstep
        /\ \E step \in [1 .. W -> Positions(Len(params_to_fit))] :
             chain' = [w \in 1 .. W |-> Append(old[w], step[w])]
        /\ lnprobability' =
              sampler_lnprobability(chain', event, params_to_fit, params_lowup_dict)
        /\ pos' = <<>>

run_mcmc_done == Len(chain'[1]) = nburn + nstep

\* nthread == 1: sampler built and run without a pool (lines 78-89); the event
\* is left with the parameters of the last evaluation.  The sampler or an
\* Event method may raise at any iteration.
RunSingle ==
    /\ fit_pc = "pos" /\ nthread = 1
    /\ \/ /\ run_mcmc_step
          /\ event' = event_set_params(event, chain'[nwalkers][Len(chain'[nwalkers])])
          /\ fit_pc' = IF run_mcmc_done THEN "sampled" ELSE fit_pc
       \/ /\ fit_pc' = "failed"
          /\ UNCHANGED <<event, chain, lnprobability, pos>>
    /\ UNCHANGED <<params_to_fit, params_lowup_dict, fitArgs, init_params, pool,
                   params_chain, chi2_chain, file, result, evalVars, radecVars, timeVars>>

\* with multiprocessing.Pool(nthread) as pool: Pool raises ValueError for
\* nthread < 1, and then no pool exists.
PoolEnter ==
    /\ fit_pc = "pos" /\ nthread # 1
    /\ IF nthread < 1
       THEN fit_pc' = "failed" /\ pool' = pool
       ELSE fit_pc' = "in_pool"
            /\ pool' = [state |-> "open", created |-> pool.created + 1]
    /\ UNCHANGED <<sharedVars, fitArgs, init_params, pos, fitOut, evalVars, radecVars, timeVars>>

\* lines 92-103: sampler built and run inside the with block; the workers
\* evaluate copies of the event.
RunPooled ==
    /\ fit_pc = "in_pool"
    /\ \/ /\ run_mcmc_step
          /\ fit_pc' = IF run_mcmc_done THEN "sampled_in_pool" ELSE fit_pc
       \/ /\ fit_pc' = "raising_in_pool"
          /\ UNCHANGED <<chain, lnprobability, pos>>
    /\ UNCHANGED <<sharedVars, fitArgs, init_params, pool,
                   params_chain, chi2_chain, file, result, evalVars, radecVars, timeVars>>

\* Mutant of PoolExit: the pool is terminated only when the block ends normally.
PoolExitOnSuccessOnly ==
    /\ fit_pc \in {"sampled_in_pool", "raising_in_pool"}
    /\ pool' = IF fit_pc = "sampled_in_pool"
               THEN [pool EXCEPT !.state = "terminated"] ELSE pool
    /\ fit_pc' = IF fit_pc = "sampled_in_pool" THEN "sampled" ELSE "failed"
    /\ UNCHANGED <<sharedVars, fitArgs, init_params, pos, fitOut, evalVars, radecVars, timeVars>>

\* Pool.__exit__: terminate(), on normal and on exceptional exit of the block.
PoolExit ==
    /\ fit_pc \in {"sampled_in_pool", "raising_in_pool"}
    /\ pool' = [pool EXCEPT !.state = "terminated"]
    /\ fit_pc' = IF fit_pc = "sampled_in_pool" THEN "sampled" ELSE "failed"
    /\ UNCHANGED <<sharedVars, fitArgs, init_params, pos, fitOut, evalVars, radecVars, timeVars>>

\* lines 105-128: flatten the retained chain, write the file, find the best
\* fit and the percentiles, return
PostProcess ==
    /\ fit_pc = "sampled"
    /\ params_chain' = reshape_params(chain, nburn, Len(params_to_fit))
    /\ chi2_chain' = reshape_chi2(lnprobability, nburn)
    /\ file' = IF chain_path # "None"
               THEN [header |-> header_str(params_to_fit),
                     rows |-> save_chain(params_chain', chi2_chain'),
                     written |-> TRUE]
               ELSE file
    /\ result' = [params_best |-> params_chain'[argmin(chi2_chain')],
                  params_errs |-> params_errs(params_chain', Len(params_to_fit)),
                  chi2 |-> chi2_chain'[argmin(chi2_chain')]]
    /\ fit_pc' = "returned"
    /\ UNCHANGED <<sharedVars, fitArgs, init_params, pos, pool, chain, lnprobability,
                   evalVars, radecVars, timeVars>>

NextFit ==
    \/ GetInitParams \/ MakePos \/ RunSingle \/ PoolEnter \/ RunPooled
    \/ PoolExit \/ PostProcess

SpecFit == InitFit /\ [][NextFit]_vars

\* The log-posterior of a position when prior(values, names) is the prior term.
posterior_with(prior_value, values, e) ==
    LET l_prob == event_ln_prob(event_set_params(e, values))
    IN  IF isinf(prior_value) \/ isinf(l_prob) THEN NInf
        ELSE FAdd(prior_value, l_prob)

\* (C2) When the MCMCUtils instance was constructed with a prior callable,
\* every log-posterior evaluated during emcee_fitting has that callable's value
\* as its prior term, in place of the built-in flat prior.
C2_PriorCallableUsed ==
    (self_prior = "user_prior" /\ lnprobability # <<>>) =>
        \A w \in 1 .. Len(chain) : \A t \in 1 .. Len(chain[w]) :
            lnprobability[w][t] =
                posterior_with(user_prior(chain[w][t], params_to_fit), chain[w][t], event)

\* (C3, as the claim states it) The retained matrix has W*S rows, holds only
\* steps >= nburn and is ordered walker-major: walker w, retained step s is
\* row w*S + s (0-based).
C3_WalkerMajorOrder ==
    fit_pc = "returned" =>
        /\ Len(params_chain) = nwalkers * nstep
        /\ \A w \in 1 .. nwalkers : \A st \in 1 .. nstep :
              params_chain[(w - 1) * nstep + st] = chain[w][nburn + st]

\* (C3, amended) The retained matrix has W*S rows, holds only steps >= nburn
\* and is ordered step-major: all walkers of the first retained step in walker
\* order, then all walkers of the next; walker w, retained step s is row
\* s*W + w (0-based).
C3_StepMajorOrder ==
    fit_pc = "returned" =>
        /\ Len(params_chain) = nwalkers * nstep
        /\ \A w \in 1 .. nwalkers : \A st \in 1 .. nstep :
              params_chain[(st - 1) * nwalkers + w] = chain[w][nburn + st]

\* Two walkers, two retained steps after a burn-in, and the two orders differ.
C3_Witness ==
    /\ fit_pc = "returned" /\ nwalkers >= 2 /\ nstep >= 2 /\ nburn >= 1
    /\ chain[1][nburn + 2] # chain[2][nburn + 1]
    /\ chain[1][1] # chain[1][nburn + 1]
    /\ params_chain[2] = chain[2][nburn + 1]

\* (C5) The list of starting positions handed to the sampler has exactly
\* nwalkers entries: nwalkers - 1 perturbed copies of the init vector and, last,
\* the init vector itself.
C5_WalkerInit ==
    (fit_pc \in {"pos", "in_pool"} /\ chain = <<>>) =>
        /\ init_params = event.init
        /\ Len(pos) = nwalkers
        /\ pos[nwalkers] = init_params
        /\ \A i \in 1 .. (nwalkers - 1) :
              /\ Len(pos[i]) = Len(init_params)
              /\ \A d \in 1 .. Len(init_params) : (pos[i][d] - init_params[d]) \in Noise

\* Several walkers: the first is perturbed, the last is not.
C5_Witness ==
    /\ fit_pc = "pos" /\ chain = <<>> /\ nwalkers >= 2
    /\ pos[1] # init_params
    /\ pos[nwalkers] = init_params

\* The header line expected for a list of parameter names.
ExpectedHeader(names) ==
    IF names = <<"t0">> THEN "t0,chi2"
    ELSE IF names = <<"t0", "u0">> THEN "t0,u0,chi2"
    ELSE "?"

\* (C6) With a chain_path the file has the header "<names>,chi2" and one row
\* per retained sample: the parameter values of row i of the matrix used for
\* best fit and percentiles, then -2 x the log-posterior of that same
\* (walker, step) sample.  With chain_path None no file is written.
C6_OutputRows ==
    fit_pc = "returned" =>
        IF chain_path = "None" THEN file = NoFile
        ELSE /\ file.written
             /\ file.header = ExpectedHeader(params_to_fit)
             /\ Len(file.rows) = nwalkers * nstep
             /\ \A r \in 1 .. Len(file.rows) :
                   SubSeq(file.rows[r], 1, Len(params_to_fit))
                       = [c \in 1 .. Len(params_to_fit) |-> Fin(params_chain[r][c])]
             /\ \A w \in 1 .. nwalkers : \A st \in 1 .. nstep :
                   LET r == (st - 1) * nwalkers + w
                   IN  /\ params_chain[r] = chain[w][nburn + st]
                       /\ file.rows[r][Len(params_to_fit) + 1]
                             = FScale(-2, lnprobability[w][nburn + st])

\* A written file whose rows carry different chi-square values.
C6_Witness ==
    /\ fit_pc = "returned" /\ chain_path # "None" /\ file.written
    /\ nwalkers >= 2 /\ nstep >= 2
    /\ file.rows[2][Len(params_to_fit) + 1] # file.rows[nwalkers + 1][Len(params_to_fit) + 1]
    /\ file.rows[2][1] # file.rows[nwalkers + 1][1]

\* Index i holds the minimum of the array and no earlier index does.
IsFirstMin(a, i) ==
    /\ \A j \in 1 .. Len(a) : ~FLess(a[j], a[i])
    /\ \A j \in 1 .. (i - 1) : a[j] # a[i]

\* (C7) The best-fit vector is the retained row at the first flattened index
\* whose chi-square equals the minimum, and the returned minimum chi-square is
\* that row's, also when several samples tie.
C7_BestFitFirstMin ==
    fit_pc = "returned" =>
        \E i \in 1 .. Len(chi2_chain) :
            /\ IsFirstMin(chi2_chain, i)
            /\ result.params_best = params_chain[i]
            /\ result.chi2 = chi2_chain[i]

\* Two different rows tie for the minimum, and the first is returned.
C7_Witness ==
    /\ fit_pc = "returned"
    /\ \E i, j \in 1 .. Len(chi2_chain) :
          /\ i < j
          /\ IsFirstMin(chi2_chain, i)
          /\ chi2_chain[j] = chi2_chain[i]
          /\ params_chain[j] # params_chain[i]
          /\ result.params_best = params_chain[i]

\* (C8) A run with nthread == 1 never creates a pool; a run with nthread > 1
\* holds exactly one pool while it samples, and the pool is released when the
\* with block is left, by completion or by an exception; no pool is held once
\* the run has returned or failed, and the chain is post-processed and the file
\* written only after the release.
C8_PoolScoped ==
    /\ nthread = 1 => pool = NoPool
    /\ pool.created <= 1
    /\ (nthread > 1 /\ chain # <<>>) => pool.created = 1
    /\ pool.state = "open" <=> fit_pc \in {"in_pool", "sampled_in_pool", "raising_in_pool"}
    /\ (fit_pc \in {"sampled", "returned"} /\ nthread > 1) => pool.state = "terminated"
    /\ fit_pc \in {"returned", "failed"} => pool.state # "open"
    /\ (params_chain # <<>> \/ file.written \/ result # NoResult) => pool.state # "open"

\* A pooled run that failed while sampling, with its pool released.
C8_Witness ==
    /\ fit_pc = "failed" /\ nthread > 1
    /\ pool = [state |-> "terminated", created |-> 1]
    /\ chain # <<>>

====
